---- MODULE Spec2Model ----
(***************************************************************************)
(* tuisha 0.2: a terminal SHA-256 tool.  The model covers the file browser *)
(* (FileBrowser), the verify and generate screens and the hasher, over a   *)
(* small filesystem that other processes may change while the tool runs.   *)
(*                                                                         *)
(* Text is modelled as Python models it: a string is a sequence of         *)
(* one-character strings, so strip(), lower() and the os.path functions    *)
(* are computed character by character.                                    *)
(***************************************************************************)
EXTENDS Integers, Sequences, FiniteSets, TLC

(***************************************************************************)
(* Characters and strings                                                  *)
(***************************************************************************)
UpperLetters ==
    << "A", "B", "C", "D", "E", "F", "G", "H", "I", "J", "K", "L", "M",
       "N", "O", "P", "Q", "R", "S", "T", "U", "V", "W", "X", "Y", "Z" >>

LowerLetters ==
    << "a", "b", "c", "d", "e", "f", "g", "h", "i", "j", "k", "l", "m",
       "n", "o", "p", "q", "r", "s", "t", "u", "v", "w", "x", "y", "z" >>

DigitChars ==
    << "0", "1", "2", "3", "4", "5", "6", "7", "8", "9" >>

\* The characters str.strip() removes (the ones the model's inputs use).
Whitespace == {" ", "\t"}

IndexOf(seq, c) ==
    IF \E i \in 1..Len(seq) : seq[i] = c
    THEN CHOOSE i \in 1..Len(seq) : seq[i] = c
    ELSE 0

Chars ==
    {UpperLetters[i] : i \in 1..Len(UpperLetters)}
    \cup {LowerLetters[i] : i \in 1..Len(LowerLetters)}
    \cup {DigitChars[i] : i \in 1..Len(DigitChars)}
    \cup {"\t", " ", ".", "/"}

\* ord(c) for the characters the model uses.
CodePointTable ==
    [c \in Chars |->
        IF IndexOf(UpperLetters, c) > 0 THEN 64 + IndexOf(UpperLetters, c)
        ELSE IF IndexOf(LowerLetters, c) > 0 THEN 96 + IndexOf(LowerLetters, c)
        ELSE IF IndexOf(DigitChars, c) > 0 THEN 47 + IndexOf(DigitChars, c)
        ELSE CASE c = "\t" -> 9
               [] c = " "  -> 32
               [] c = "."  -> 46
               [] c = "/"  -> 47]

CodePoint(c) == CodePointTable[c]

\* str.lower() and str.upper() on one character.
LowerTable ==
    [c \in Chars |->
        IF IndexOf(UpperLetters, c) > 0
        THEN LowerLetters[IndexOf(UpperLetters, c)]
        ELSE c]

UpperTable ==
    [c \in Chars |->
        IF IndexOf(LowerLetters, c) > 0
        THEN UpperLetters[IndexOf(LowerLetters, c)]
        ELSE c]

LowerChar(c) == LowerTable[c]

\* (used to build inputs only)
UpperChar(c) == UpperTable[c]

Lower(s) == [i \in 1..Len(s) |-> LowerChar(s[i])]

Upper(s) == [i \in 1..Len(s) |-> UpperChar(s[i])]

\* Python's s < t on strings: lexicographic by code point.
RECURSIVE StrLess(_, _)
StrLess(s, t) ==
    IF t = << >> THEN FALSE
    ELSE IF s = << >> THEN TRUE
    ELSE IF CodePoint(Head(s)) # CodePoint(Head(t))
         THEN CodePoint(Head(s)) < CodePoint(Head(t))
         ELSE StrLess(Tail(s), Tail(t))

StartsWith(s, prefix) ==
    /\ Len(s) >= Len(prefix)
    /\ SubSeq(s, 1, Len(prefix)) = prefix

RECURSIVE LStrip(_)
LStrip(s) ==
    IF s # << >> /\ Head(s) \in Whitespace THEN LStrip(Tail(s)) ELSE s

RECURSIVE RStrip(_)
RStrip(s) ==
    IF s # << >> /\ s[Len(s)] \in Whitespace
    THEN RStrip(SubSeq(s, 1, Len(s) - 1))
    ELSE s

\* str.strip()
Strip(s) == RStrip(LStrip(s))

(***************************************************************************)
(* os.path                                                                 *)
(***************************************************************************)
SEP == << "/" >>

\* os.pardir
PARDIR == << ".", "." >>

IsAbs(p) == StartsWith(p, SEP)

\* os.path.join(path, name)
Join(path, name) ==
    IF IsAbs(name) THEN name
    ELSE IF path = << >> \/ path[Len(path)] = "/" THEN path \o name
    ELSE path \o SEP \o name

\* s.split("/") continued from the component cur read so far.
RECURSIVE Split(_, _)
Split(s, cur) ==
    IF s = << >> THEN << cur >>
    ELSE IF Head(s) = "/" THEN << cur >> \o Split(Tail(s), << >>)
    ELSE Split(Tail(s), Append(cur, Head(s)))

\* the component loop of os.path.normpath for an absolute path
RECURSIVE NormComps(_, _)
NormComps(comps, acc) ==
    IF comps = << >> THEN acc
    ELSE LET c == Head(comps) IN
         IF c = << >> \/ c = << "." >> THEN NormComps(Tail(comps), acc)
         ELSE IF c = PARDIR
              THEN NormComps(Tail(comps),
                             IF acc = << >> THEN acc
                             ELSE SubSeq(acc, 1, Len(acc) - 1))
              ELSE NormComps(Tail(comps), Append(acc, c))

RECURSIVE JoinComps(_)
JoinComps(comps) ==
    IF comps = << >> THEN << >>
    ELSE SEP \o Head(comps) \o JoinComps(Tail(comps))

\* os.path.normpath(p) for an absolute p
NormPath(p) ==
    LET c == NormComps(Split(p, << >>), << >>)
    IN  IF c = << >> THEN SEP ELSE JoinComps(c)

(***************************************************************************)
(* The filesystem                                                          *)
(***************************************************************************)
P_root == << "/" >>
P_a    == << "/", "a" >>
P_B    == << "/", "B" >>
P_B_D  == << "/", "B", "/", "D" >>
P_B_f  == << "/", "B", "/", "f" >>
P_b    == << "/", "b" >>
P_C    == << "/", "C" >>
P_d    == << "/", "d", " " >>
P_h    == << "/", ".", "h" >>

\* Every path the filesystem holds at some time.  "/d " ends with a space.
UPaths == {P_root, P_a, P_B, P_B_D, P_B_f, P_b, P_C, P_d, P_h}

\* Entry names in the order the directories hold them on disk.
DiskOrder ==
    << << "d", " " >>, << "C" >>, << ".", "h" >>, << "B" >>, << "b" >>,
       << "f" >>, << "a" >>, << "D" >> >>

\* The parent of every path that is a directory at some time, as the
\* filesystem has it.
FsParent ==
    [p \in {P_root, P_a, P_B, P_b, P_B_D} |->
        CASE p = P_root -> P_root
          [] p = P_a    -> P_root
          [] p = P_B    -> P_root
          [] p = P_b    -> P_root
          [] p = P_B_D  -> P_B]

\* File contents are byte sequences.
EmptyBytes == << >>
Bytes_a    == << 97 >>
Bytes_ab   == << 97, 98 >>

File(content) == [kind |-> "file", mode |-> TRUE, content |-> content]
Dir           == [kind |-> "dir", mode |-> TRUE, content |-> EmptyBytes]
Absent        == [kind |-> "absent", mode |-> TRUE, content |-> EmptyBytes]

BaseFs ==
    [p \in UPaths |->
        CASE p \in {P_root, P_a, P_B, P_B_D} -> Dir
          [] p = P_b -> File(Bytes_a)
          [] p = P_C -> File(EmptyBytes)
          [] p = P_d -> File(Bytes_a)
          [] p = P_h -> File(Bytes_ab)
          [] p = P_B_f -> File(Bytes_ab)]

\* The paths other processes change while the tool runs.
Volatile == {P_B, P_b}

\* The paths below each path.
Below ==
    [p \in UPaths |-> {q \in UPaths : q # p /\ StartsWith(q, p \o SEP)}]

(***************************************************************************)
(* State                                                                   *)
(***************************************************************************)
VARIABLES
    fs,            \* the filesystem: path -> [kind, mode, content]
    fsChanges,     \* how many changes other processes have made to it
    cwd,           \* os.getcwd()
    status,        \* "running", "exited" or "crashed" (an unhandled exception)
    screen,        \* the screen on top of the stack: "menu", "verify", "generate"
    current_path,  \* FileBrowser.current_path
    children,      \* FileBrowser.root.children: the nodes of the listing
    hash_input,    \* VerifyHashScreen.hash_input.value
    file_input,    \* file_input.value of the screen on top
    hash_output,   \* GenerateHashScreen.hash_output.value
    result_label,  \* result_label of the screen on top
    pending,       \* FileSelected messages posted and not yet handled
    hashed,        \* the paths the handler that ran last gave to hashfile
    handler,       \* the handler that ran in the last step, "none" if none did
    selected,      \* Tree.NodeSelected messages posted and not yet handled
    reader         \* a call of hashfile under way: the open file, the
                   \* accumulator and the chunks read so far

vars ==
    << fs, fsChanges, cwd, status, screen, current_path, children, hash_input,
       file_input, hash_output, result_label, pending, hashed, handler,
       selected, reader >>

\* How many changes other processes make to the filesystem in one run.
MaxFsChanges == 1

\* abspath without normpath: ".." stays in the path.
AbsPathUnnormalised(p) == IF IsAbs(p) THEN p ELSE Join(cwd, p)

\* os.path.abspath(p)
AbsPath(p) == NormPath(IF IsAbs(p) THEN p ELSE Join(cwd, p))

(***************************************************************************)
(* System calls                                                            *)
(***************************************************************************)
Reverse(seq) == [i \in 1..Len(seq) |-> seq[Len(seq) + 1 - i]]

\* The directory each path of the filesystem lies in.
DirOf == [p \in UPaths |-> NormPath(Join(p, PARDIR))]

\* The names each path of the filesystem may hold, in directory order.
NamesIn ==
    [p \in UPaths |->
        LET Inside(n) == Join(p, n) \in UPaths IN SelectSeq(DiskOrder, Inside)]

\* What the kernel answers while it walks the directories above p.
RECURSIVE TraverseErr(_, _)
TraverseErr(f, p) ==
    LET d == DirOf[p] IN
    IF d = p THEN "ok"
    ELSE LET e == TraverseErr(f, d) IN
         IF e # "ok" THEN e
         ELSE IF f[d].kind = "absent" THEN "ENOENT"
         ELSE IF f[d].kind # "dir" THEN "ENOTDIR"
         ELSE IF ~f[d].mode THEN "EACCES"
         ELSE "ok"

\* stat(p): "ok" or the errno.
Stat(f, p) ==
    IF p \notin UPaths THEN "ENOENT"
    ELSE LET e == TraverseErr(f, p) IN
         IF e # "ok" THEN e
         ELSE IF f[p].kind = "absent" THEN "ENOENT"
         ELSE "ok"

\* os.path.isfile(p)
IsFile(f, p) == Stat(f, p) = "ok" /\ f[p].kind = "file"

\* The node at p, if any.
NodeAt(f, p) == IF p \in UPaths THEN f[p] ELSE Absent

\* open(p, "rb") on a path that stat answers st for and that holds node:
\* "ok" or the exception raised.
OpenResult(st, node) ==
    CASE st = "ENOENT"  -> "FileNotFoundError"
      [] st = "ENOTDIR" -> "NotADirectoryError"
      [] st = "EACCES"  -> "PermissionError"
      [] OTHER -> IF ~node.mode THEN "PermissionError"
                  ELSE IF node.kind = "dir" THEN "IsADirectoryError"
                  ELSE "ok"

OpenForRead(f, p) == OpenResult(Stat(f, p), NodeAt(f, p))

\* The exception os.scandir(path) raises, "none" if it raises none.
ScanResult(st, node) ==
    CASE st = "ENOENT"  -> "FileNotFoundError"
      [] st = "ENOTDIR" -> "NotADirectoryError"
      [] st = "EACCES"  -> "PermissionError"
      [] OTHER -> IF node.kind # "dir" THEN "NotADirectoryError"
                  ELSE IF ~node.mode THEN "PermissionError"
                  ELSE "none"

\* The entries of the directory path in directory order.  entry.path is
\* os.path.join(path, entry.name); entry.is_dir() is the node's kind.
EntriesOf(f, path) ==
    LET Present(n) == f[Join(path, n)].kind # "absent"
        names      == SelectSeq(NamesIn[path], Present)
    IN  [i \in 1..Len(names) |->
            [name   |-> names[i],
             path   |-> Join(path, names[i]),
             is_dir |-> f[Join(path, names[i])].kind = "dir"]]

Scanned(err, entries, rev) ==
    [err     |-> err,
     entries |-> IF err # "none" THEN << >>
                 ELSE IF rev THEN Reverse(entries) ELSE entries]

\* os.scandir(path): the exception raised, or the entries in directory order
\* (rev: in the opposite order; the order is arbitrary).
ScanDir(f, path, rev) ==
    Scanned(ScanResult(Stat(f, path), NodeAt(f, path)), EntriesOf(f, path), rev)

(***************************************************************************)
(* FileBrowser                                                             *)
(***************************************************************************)
\* The sort key with .lower() left out.
SortKeyNameCaseSensitive(e) == e.name

\* e.name.lower(), the second component of the sort key
SortKeyName(e) == Lower(e.name)

\* (not a.is_dir(), a.name.lower()) < (not b.is_dir(), b.name.lower()):
\* Python compares the tuples component by component, False before True.
KeyLess(a, b) ==
    IF a.is_dir # b.is_dir THEN a.is_dir
    ELSE StrLess(SortKeyName(a), SortKeyName(b))

\* sorted() is stable: an entry goes after every entry not greater than it.
RECURSIVE InsertSorted(_, _)
InsertSorted(sorted, e) ==
    IF sorted = << >> THEN << e >>
    ELSE IF KeyLess(e, Head(sorted)) THEN << e >> \o sorted
    ELSE << Head(sorted) >> \o InsertSorted(Tail(sorted), e)

RECURSIVE SortedFrom(_, _)
SortedFrom(seq, acc) ==
    IF seq = << >> THEN acc
    ELSE SortedFrom(Tail(seq), InsertSorted(acc, Head(seq)))

\* sorted(os.scandir(path), key=...)
Sorted(seq) == SortedFrom(seq, << >>)

\* The labels' icons stand for one character each.
UpPrefix   == << "U+2B06", " ", " ", ".", "." >>
UpLabel    == UpPrefix \o << " ", "(", "P", "a", "r", "e", "n", "t", " ",
                            "D", "i", "r", "e", "c", "t", "o", "r", "y", ")" >>
FolderIcon == << "U+1F4C1", " ", " " >>
PageIcon   == << "U+1F4C4", " ", " " >>

UpNode(parent_dir) ==
    [label |-> UpLabel, data |-> parent_dir, allow_expand |-> FALSE]

\* entry.name.startswith(".")
Hidden(name) == StartsWith(name, << "." >>)

\* The loop body of populate_tree: the node added for one entry, if any.
NodeOf(e) ==
    IF Hidden(e.name) THEN << >>
    ELSE IF e.is_dir
         THEN << [label |-> FolderIcon \o e.name, data |-> e.path,
                  allow_expand |-> TRUE] >>
         ELSE << [label |-> PageIcon \o e.name, data |-> e.path,
                  allow_expand |-> FALSE] >>

RECURSIVE NodesOf(_)
NodesOf(entries) ==
    IF entries = << >> THEN << >>
    ELSE NodeOf(Head(entries)) \o NodesOf(Tail(entries))

\* The up node added without the test against the root.
UpLinkAlways(path, parent_dir) == << UpNode(parent_dir) >>

\* if parent_dir != path: up_node = node.add(...)
UpLink(path, parent_dir) ==
    IF parent_dir # path THEN << UpNode(parent_dir) >> ELSE << >>

\* populate_tree with "except PermissionError: raise".
PopulatedReraises(path, parent_dir, scan) ==
    [current_path |-> path,
     children     |-> UpLink(path, parent_dir) \o NodesOf(Sorted(scan.entries)),
     raised       |-> scan.err,
     posted       |-> << >>]

\* populate_tree leaving its loop before the last entry.
PopulatedStopsEarly(path, parent_dir, scan) ==
    [current_path |-> path,
     children     |-> UpLink(path, parent_dir)
                      \o NodesOf(SubSeq(Sorted(scan.entries), 1,
                                        Len(scan.entries) - 1)),
     raised       |-> IF scan.err = "PermissionError" THEN "none" ELSE scan.err,
     posted       |-> << >>]

\* The body of populate_tree once parent_dir is computed and scandir has
\* answered scan: the browser it leaves and the exception it raises
\* ("none": it returned; PermissionError is caught and passed over).
Populated(path, parent_dir, scan) ==
    [current_path |-> path,
     children     |-> UpLink(path, parent_dir) \o NodesOf(Sorted(scan.entries)),
     raised       |-> IF scan.err = "PermissionError" THEN "none" ELSE scan.err,
     posted       |-> << >>]

\* populate_tree with the parent taken from the working directory,
\* os.path.abspath(os.pardir), not from path.
PopulateTreeParentOfCwd(f, path, rev) ==
    Populated(path, AbsPath(PARDIR), ScanDir(f, path, rev))

\* populate_tree(path)
PopulateTree(f, path, rev) ==
    Populated(path, AbsPath(Join(path, PARDIR)), ScanDir(f, path, rev))

\* on_tree_node_selected with the message posted for every node that is
\* not the up node.
SelectedAlwaysPosts(cur, kids, node, f, rev) ==
    IF node.data = cur
    THEN [current_path |-> cur, children |-> kids, raised |-> "none",
          posted |-> << >>]
    ELSE IF StartsWith(node.label, UpPrefix)
    THEN PopulateTree(f, node.data, rev)
    ELSE [current_path |-> cur, children |-> kids, raised |-> "none",
          posted |-> << node.data >>]

\* on_tree_node_selected rebuilding the listing before it posts the message
\* for a file.
SelectedFileRefreshes(cur, kids, node, f, rev) ==
    IF node.data = cur
    THEN [current_path |-> cur, children |-> kids, raised |-> "none",
          posted |-> << >>]
    ELSE IF StartsWith(node.label, UpPrefix) \/ node.allow_expand
    THEN PopulateTree(f, node.data, rev)
    ELSE [PopulateTree(f, cur, rev) EXCEPT !.posted = << node.data >>]

\* on_tree_node_selected(event) with event.node = node, on a browser showing
\* cur with the nodes kids: the browser it leaves, the exception it raises
\* and the FileSelected messages it posts.
OnTreeNodeSelected(cur, kids, node, f, rev) ==
    IF node.data = cur
    THEN [current_path |-> cur, children |-> kids, raised |-> "none",
          posted |-> << >>]
    ELSE IF StartsWith(node.label, UpPrefix)
    THEN PopulateTree(f, node.data, rev)
    ELSE IF node.allow_expand
    THEN PopulateTree(f, node.data, rev)
    ELSE [current_path |-> cur, children |-> kids, raised |-> "none",
          posted |-> << node.data >>]

\* on_focus(event): the Tree.NodeSelected messages it has posted when it
\* returns.  select_node(first_child) moves the cursor to the first node
\* and, if selects, posts the message for it; scroll_to_node scrolls.
OnFocus(kids, selects) ==
    IF kids # << >> /\ selects THEN << kids[1] >> ELSE << >>

(***************************************************************************)
(* The hasher (hashfile, the same code on both screens)                    *)
(***************************************************************************)
BUF_SIZE == 65536

\* SHA-256 of the three contents the filesystem holds, as hashlib gives it.
Sha_empty ==
    << "e", "3", "b", "0", "c", "4", "4", "2", "9", "8", "f", "c", "1",
       "c", "1", "4", "9", "a", "f", "b", "f", "4", "c", "8", "9", "9",
       "6", "f", "b", "9", "2", "4", "2", "7", "a", "e", "4", "1", "e",
       "4", "6", "4", "9", "b", "9", "3", "4", "c", "a", "4", "9", "5",
       "9", "9", "1", "b", "7", "8", "5", "2", "b", "8", "5", "5" >>

Sha_a ==
    << "c", "a", "9", "7", "8", "1", "1", "2", "c", "a", "1", "b", "b",
       "d", "c", "a", "f", "a", "c", "2", "3", "1", "b", "3", "9", "a",
       "2", "3", "d", "c", "4", "d", "a", "7", "8", "6", "e", "f", "f",
       "8", "1", "4", "7", "c", "4", "e", "7", "2", "b", "9", "8", "0",
       "7", "7", "8", "5", "a", "f", "e", "e", "4", "8", "b", "b" >>

Sha_ab ==
    << "f", "b", "8", "e", "2", "0", "f", "c", "2", "e", "4", "c", "3",
       "f", "2", "4", "8", "c", "6", "0", "c", "3", "9", "b", "d", "6",
       "5", "2", "f", "3", "c", "1", "3", "4", "7", "2", "9", "8", "b",
       "b", "9", "7", "7", "b", "8", "b", "4", "d", "5", "9", "0", "3",
       "b", "8", "5", "0", "5", "5", "6", "2", "0", "6", "0", "3" >>

\* sha256.update(chunk): the accumulator is the bytes fed so far.
Sha256Update(acc, chunk) == acc \o chunk

\* sha256.hexdigest()
HexDigest(acc) ==
    CASE acc = EmptyBytes -> Sha_empty
      [] acc = Bytes_a    -> Sha_a
      [] acc = Bytes_ab   -> Sha_ab

Min(a, b) == IF a < b THEN a ELSE b

\* while chunk := f.read(BUF_SIZE): sha256.update(chunk)
RECURSIVE ReadLoop(_, _)
ReadLoop(rest, acc) ==
    IF SubSeq(rest, 1, Min(BUF_SIZE, Len(rest))) = << >> THEN acc
    ELSE ReadLoop(SubSeq(rest, Min(BUF_SIZE, Len(rest)) + 1, Len(rest)),
                  Sha256Update(acc, SubSeq(rest, 1, Min(BUF_SIZE, Len(rest)))))

\* Python's None, and the truth value of a str | None.
None == << "None" >>
Truthy(v) == v # None /\ v # << >>

MsgNotFound    == "Error: File not found."
MsgPermission  == "Error: Permission denied."
MsgEmptyHash   == "Error: Expected hash cannot be empty."
MsgInvalidPath == "Error: Please enter a valid file path."
MsgVerifying   == "Verifying checksum..."
MsgMatch       == "Hashes match, file is legit."
MsgMismatch    == "Hashes are different, beware!"
MsgGenerating  == "Generating hash..."
MsgGenerated   ==
    "Hash generated successfully. Click the hash field or press Enter to copy."
MsgCopied      == "Hash copied to clipboard!"

\* f"Unexpected error: {e}"
MsgUnexpected(e) ==
    CASE e = "IsADirectoryError"  -> "Unexpected error: [Errno 21] Is a directory"
      [] e = "NotADirectoryError" -> "Unexpected error: [Errno 20] Not a directory"
      [] OTHER                    -> "Unexpected error: [Errno 5] Input/output error"

Last(seq) == seq[Len(seq)]

\* hashfile with a directory reported like a missing file
\* (except (FileNotFoundError, IsADirectoryError)).
HashResultDirIsNotFound(o, io, content) ==
    IF o = "ok" /\ ~io
    THEN [value   |-> HexDigest(ReadLoop(content, EmptyBytes)),
          updates |-> << >>]
    ELSE IF o \in {"FileNotFoundError", "IsADirectoryError"}
    THEN [value |-> None, updates |-> << MsgNotFound >>]
    ELSE IF o = "PermissionError"
    THEN [value |-> None, updates |-> << MsgPermission >>]
    ELSE [value |-> None, updates |-> << MsgUnexpected(o) >>]

\* hashfile with handlers that return None without updating result_label.
HashResultSilent(o, io, content) ==
    IF o = "ok" /\ ~io
    THEN [value   |-> HexDigest(ReadLoop(content, EmptyBytes)),
          updates |-> << >>]
    ELSE [value |-> None, updates |-> << >>]

\* The try block of hashfile and its handlers, open() having answered o, on
\* a file holding content; io: a read fails with an I/O error.  The value
\* returned and the updates of result_label.
HashResult(o, io, content) ==
    IF o = "ok" /\ ~io
    THEN [value   |-> HexDigest(ReadLoop(content, EmptyBytes)),
          updates |-> << >>]
    ELSE IF o = "FileNotFoundError"
    THEN [value |-> None, updates |-> << MsgNotFound >>]
    ELSE IF o = "PermissionError"
    THEN [value |-> None, updates |-> << MsgPermission >>]
    ELSE [value |-> None, updates |-> << MsgUnexpected(o) >>]

\* hashfile(file_path)
HashFile(f, file_path, io) ==
    HashResult(OpenForRead(f, file_path), io, NodeAt(f, file_path).content)

\* No call of hashfile is under way.
NoReader ==
    [screen |-> "none", size |-> 0, pos |-> 0, sha256 |-> EmptyBytes,
     chunks |-> << >>, pc |-> "idle"]

\* The hasher was not called.
NoHash == [value |-> None, updates |-> << >>]

(***************************************************************************)
(* VerifyHashScreen and GenerateHashScreen                                 *)
(***************************************************************************)
\* expected_hash.lower() == computed_hash.lower()
HashesEqual(expected_hash, computed_hash) ==
    Lower(expected_hash) = Lower(computed_hash)

\* verify_hash() from the call of hashfile on, which answered h.
VerifyCompared(expected_hash, file_path, h) ==
    [label  |-> Last(<< MsgVerifying >> \o h.updates \o
                     IF Truthy(h.value)
                     THEN IF HashesEqual(expected_hash, h.value)
                          THEN << MsgMatch >> ELSE << MsgMismatch >>
                     ELSE << >>),
     hashed |-> << file_path >>,
     h      |-> h]

\* verify_hash() with the two checks in the opposite order.
VerifyCheckedPathFirst(expected_hash, file_path, f, f2, io) ==
    IF file_path = << >> \/ ~IsFile(f, file_path)
    THEN [label |-> MsgInvalidPath, hashed |-> << >>, h |-> NoHash]
    ELSE IF expected_hash = << >>
    THEN [label |-> MsgEmptyHash, hashed |-> << >>, h |-> NoHash]
    ELSE VerifyCompared(expected_hash, file_path, HashFile(f2, file_path, io))

\* verify_hash() with os.path.isfile left out of the path check.
VerifyCheckedNoIsFile(expected_hash, file_path, f, f2, io) ==
    IF expected_hash = << >>
    THEN [label |-> MsgEmptyHash, hashed |-> << >>, h |-> NoHash]
    ELSE IF file_path = << >>
    THEN [label |-> MsgInvalidPath, hashed |-> << >>, h |-> NoHash]
    ELSE VerifyCompared(expected_hash, file_path, HashFile(f2, file_path, io))

\* verify_hash() once the two fields are stripped.  f is the filesystem when
\* the path is checked, f2 when the file is opened.
VerifyChecked(expected_hash, file_path, f, f2, io) ==
    IF expected_hash = << >>
    THEN [label |-> MsgEmptyHash, hashed |-> << >>, h |-> NoHash]
    ELSE IF file_path = << >> \/ ~IsFile(f, file_path)
    THEN [label |-> MsgInvalidPath, hashed |-> << >>, h |-> NoHash]
    ELSE VerifyCompared(expected_hash, file_path, HashFile(f2, file_path, io))

\* verify_hash() on the field values hin and fin: the last update of
\* result_label, the paths given to hashfile and what it answered.
VerifyHash(hin, fin, f, f2, io) ==
    VerifyChecked(Strip(hin), Strip(fin), f, f2, io)

\* generate_hash() with the else branch, hash_output.value = "", left out.
GenerateHashedKeepsOutput(file_path, h) ==
    [label  |-> Last(<< MsgGenerating >> \o h.updates \o
                     IF Truthy(h.value) THEN << MsgGenerated >> ELSE << >>),
     output |-> IF Truthy(h.value) THEN << h.value >> ELSE << >>,
     hashed |-> << file_path >>,
     h      |-> h]

\* generate_hash() from the call of hashfile on, which answered h.
GenerateHashed(file_path, h) ==
    [label  |-> Last(<< MsgGenerating >> \o h.updates \o
                     IF Truthy(h.value) THEN << MsgGenerated >> ELSE << >>),
     output |-> IF Truthy(h.value) THEN << h.value >> ELSE << << >> >>,
     hashed |-> << file_path >>,
     h      |-> h]

\* generate_hash() once the field is stripped.
GenerateChecked(file_path, f, f2, io) ==
    IF file_path = << >> \/ ~IsFile(f, file_path)
    THEN [label |-> MsgInvalidPath, output |-> << << >> >>, hashed |-> << >>,
          h |-> NoHash]
    ELSE GenerateHashed(file_path, HashFile(f2, file_path, io))

\* generate_hash() on the field value fin: the last update of result_label,
\* the values assigned to hash_output.value, the paths given to hashfile and
\* what it answered.
GenerateHash(fin, f, f2, io) == GenerateChecked(Strip(fin), f, f2, io)

\* VerifyHashScreen.clear_fields() on the fields of the screen
VerifyClearFields(fields) ==
    [fields EXCEPT !.hash_input = << >>, !.file_input = << >>,
                   !.result_label = ""]

\* clear_fields() with the output field left as it is.
GenerateClearFieldsKeepsOutput(fields) ==
    [fields EXCEPT !.file_input = << >>, !.result_label = ""]

\* GenerateHashScreen.clear_fields() on the fields of the screen
GenerateClearFields(fields) ==
    [fields EXCEPT !.file_input = << >>, !.hash_output = << >>,
                   !.result_label = ""]

(***************************************************************************)
(* Other processes                                                         *)
(***************************************************************************)
\* The filesystem after path p is removed (with what is below it), replaced
\* by a node of the other kind, or has its permission bits flipped
\* (mode FALSE: no read and no search permission).
FsAfter(f, p, what) ==
    CASE what = "remove" ->
            [q \in UPaths |-> IF q = p \/ q \in Below[p] THEN Absent ELSE f[q]]
      [] what = "replace" ->
            [q \in UPaths |->
                IF q \in Below[p] THEN Absent
                ELSE IF q # p THEN f[q]
                ELSE IF f[p].kind = "dir" THEN File(EmptyBytes) ELSE Dir]
      [] what = "chmod" ->
            [f EXCEPT ![p].mode = ~f[p].mode]

FsSuccessors(f) ==
    {FsAfter(f, p, what) :
        p \in {q \in Volatile : f[q].kind # "absent"},
        what \in {"remove", "replace", "chmod"}}

\* The filesystem a handler meets at a later step of the same run of it: the
\* one it started with, or one that another process changed in between.
Later(f, n) ==
    {[f |-> f, n |-> n]}
    \cup (IF n < MaxFsChanges
          THEN {[f |-> g, n |-> n + 1] : g \in FsSuccessors(f)}
          ELSE {})

(***************************************************************************)
(* Actions                                                                 *)
(***************************************************************************)
NoPath == << >>

Fields ==
    [hash_input |-> hash_input, file_input |-> file_input,
     hash_output |-> hash_output, result_label |-> result_label]

\* What the user types into the expected-hash field.
FlipFirst(s) == [s EXCEPT ![1] = IF s[1] = "0" THEN "1" ELSE "0"]
HashInputs ==
    { << " " >>, Sha_a, Upper(Sha_a), FlipFirst(Sha_a),
      << " " >> \o Sha_a \o << "\t" >> }

\* What the user types into the file-path field.
FileInputs == { << " " >>, P_b, << " " >> \o P_b \o << " " >> }

\* What the user types into the output field of the generate screen.
OutputInputs == { << "z" >> }

\* The application before any call of hashfile.
Started ==
    /\ fs = BaseFs
    /\ fsChanges = 0
    /\ cwd = P_B
    /\ status = "running"
    /\ screen = "menu"
    /\ current_path = NoPath
    /\ children = << >>
    /\ hash_input = << >>
    /\ file_input = << >>
    /\ hash_output = << >>
    /\ result_label = ""
    /\ pending = << >>
    /\ hashed = << >>
    /\ handler = "none"
    /\ selected = << >>

Init == Started /\ reader = NoReader

Running == status = "running"

\* The user's next input is handled once the message the last one posted
\* has been: a handler's FileSelected is in the queue before further input.
Idle == Running /\ pending = << >> /\ selected = << >>

\* The filesystems and read outcomes a handler may meet when it calls
\* hashfile, if it does (reaches).
Attempts(reaches) ==
    IF reaches THEN Later(fs, fsChanges) \X BOOLEAN
    ELSE {<< [f |-> fs, n |-> fsChanges], FALSE >>}

\* A handler of the browser leaves it as t says.
BrowserBecomes(t) ==
    /\ current_path' = t.current_path
    /\ children' = t.children
    /\ pending' = pending \o t.posted
    /\ status' = IF t.raised = "none" THEN "running" ELSE "crashed"

\* MenuScreen.on_button_pressed / on_key post ModeSelected(mode), and
\* SHA256Verifier.on_mode_selected pushes a new screen, whose compose()
\* builds empty fields and FileBrowser(path=os.getcwd()).
ModeSelected(mode) ==
    /\ Idle
    /\ screen = "menu"
    /\ \E rev \in BOOLEAN : BrowserBecomes(PopulateTree(fs, cwd, rev))
    /\ screen' = mode
    /\ hashed' = << >>
    /\ handler' = "on_mode_selected"
    /\ UNCHANGED << selected, reader >>
    /\ UNCHANGED << fs, fsChanges, cwd, hash_input, file_input, hash_output,
                    result_label >>

\* Tree.NodeSelected for the i-th node of the listing, scandir answering in
\* the order rev: the user selects the node, or the message is the one that
\* select_node posted.
NodeSelected(i, rev) ==
    /\ Running
    /\ pending = << >>
    /\ screen \in {"verify", "generate"}
    /\ i \in 1..Len(children)
    /\ selected # << >> => i = 1 /\ children[i] = Head(selected)
    /\ BrowserBecomes(OnTreeNodeSelected(current_path, children, children[i],
                                         fs, rev))
    /\ selected' = << >>
    /\ hashed' = << >>
    /\ handler' = "on_tree_node_selected"
    /\ UNCHANGED reader
    /\ UNCHANGED << fs, fsChanges, cwd, screen, hash_input, file_input,
                    hash_output, result_label >>

TreeNodeSelected(i) == \E rev \in BOOLEAN : NodeSelected(i, rev)

\* on_file_selected of the verify screen calling verify_hash(), as that of
\* the generate screen calls generate_hash().
VerifyFileSelectedVerifies ==
    /\ Running
    /\ screen = "verify"
    /\ pending # << >>
    /\ file_input' = Head(pending)
    /\ pending' = Tail(pending)
    /\ result_label' =
          VerifyHash(hash_input, Head(pending), fs, fs, FALSE).label
    /\ hashed' = VerifyHash(hash_input, Head(pending), fs, fs, FALSE).hashed
    /\ handler' = "on_file_selected"
    /\ UNCHANGED << selected, reader >>
    /\ UNCHANGED << fs, fsChanges, cwd, status, screen, current_path, children,
                    hash_input, hash_output >>

\* FileBrowser.on_focus: the browser gains the focus, by Tab or by a click.
\* selects: Tree.select_node of the Textual installed posts Tree.NodeSelected
\* (it does from Textual 0.73 on; before, it only moved the cursor).
BrowserFocused(selects) ==
    /\ Idle
    /\ screen \in {"verify", "generate"}
    /\ selected' = OnFocus(children, selects)
    /\ hashed' = << >>
    /\ handler' = "on_focus"
    /\ UNCHANGED << fs, fsChanges, cwd, status, screen, current_path, children,
                    hash_input, file_input, hash_output, result_label, pending,
                    reader >>

\* VerifyHashScreen.on_file_selected(message)
VerifyFileSelected ==
    /\ Running
    /\ screen = "verify"
    /\ pending # << >>
    /\ file_input' = Head(pending)
    /\ pending' = Tail(pending)
    /\ hashed' = << >>
    /\ handler' = "on_file_selected"
    /\ UNCHANGED << selected, reader >>
    /\ UNCHANGED << fs, fsChanges, cwd, status, screen, current_path, children,
                    hash_input, hash_output, result_label >>

\* generate_hash() answers g, having opened the file on the filesystem l.f
\* and met the read outcome io.
Generated(g, l, io) ==
    /\ g.hashed = << >> => (l.f = fs /\ ~io)
    /\ hash_output' = Last(<< hash_output >> \o g.output)
    /\ result_label' = g.label
    /\ fs' = l.f
    /\ fsChanges' = l.n
    /\ hashed' = g.hashed

\* GenerateHashScreen.on_file_selected(message)
GenerateFileSelectedRun(l, io) ==
    /\ Running
    /\ screen = "generate"
    /\ pending # << >>
    /\ file_input' = Head(pending)
    /\ Generated(GenerateHash(Head(pending), fs, l.f, io), l, io)
    /\ pending' = Tail(pending)
    /\ handler' = "on_file_selected"
    /\ UNCHANGED << selected, reader >>
    /\ UNCHANGED << cwd, status, screen, current_path, children, hash_input >>

GenerateFileSelected ==
    /\ pending # << >>
    /\ \E a \in Attempts(GenerateHash(Head(pending), fs, fs, FALSE).hashed
                         # << >>) :
          GenerateFileSelectedRun(a[1], a[2])

\* The user edits a field.
TypeHash(v) ==
    /\ Idle
    /\ screen = "verify"
    /\ hash_input' = v
    /\ hashed' = << >>
    /\ handler' = "input"
    /\ UNCHANGED << selected, reader >>
    /\ UNCHANGED << fs, fsChanges, cwd, status, screen, current_path, children,
                    file_input, hash_output, result_label, pending >>

TypeFile(v) ==
    /\ Idle
    /\ screen \in {"verify", "generate"}
    /\ file_input' = v
    /\ hashed' = << >>
    /\ handler' = "input"
    /\ UNCHANGED << selected, reader >>
    /\ UNCHANGED << fs, fsChanges, cwd, status, screen, current_path, children,
                    hash_input, hash_output, result_label, pending >>

TypeOutput(v) ==
    /\ Idle
    /\ screen = "generate"
    /\ hash_output' = v
    /\ hashed' = << >>
    /\ handler' = "input"
    /\ UNCHANGED << selected, reader >>
    /\ UNCHANGED << fs, fsChanges, cwd, status, screen, current_path, children,
                    hash_input, file_input, result_label, pending >>

\* verify_hash() answers v, having opened the file on the filesystem l.f
\* and met the read outcome io.
Verified(v, l, io) ==
    /\ v.hashed = << >> => (l.f = fs /\ ~io)
    /\ result_label' = v.label
    /\ fs' = l.f
    /\ fsChanges' = l.n
    /\ hashed' = v.hashed

VerifyRun(l, io) ==
    /\ Idle
    /\ screen = "verify"
    /\ Verified(VerifyHash(hash_input, file_input, fs, l.f, io), l, io)
    /\ handler' = "verify_hash"
    /\ UNCHANGED << selected, reader >>
    /\ UNCHANGED << cwd, status, screen, current_path, children, hash_input,
                    file_input, hash_output, pending >>

\* VerifyHashScreen.on_button_pressed, verify_button
VerifyButton ==
    \E a \in Attempts(VerifyHash(hash_input, file_input, fs, fs, FALSE).hashed
                      # << >>) :
        VerifyRun(a[1], a[2])

\* VerifyHashScreen.on_input_submitted, Enter in the file-path field
VerifySubmitted ==
    \E a \in Attempts(VerifyHash(hash_input, file_input, fs, fs, FALSE).hashed
                      # << >>) :
        VerifyRun(a[1], a[2])

GenerateRun(l, io) ==
    /\ Idle
    /\ screen = "generate"
    /\ Generated(GenerateHash(file_input, fs, l.f, io), l, io)
    /\ handler' = "generate_hash"
    /\ UNCHANGED << selected, reader >>
    /\ UNCHANGED << cwd, status, screen, current_path, children, hash_input,
                    file_input, pending >>

\* GenerateHashScreen.on_button_pressed, generate_button
GenerateButton ==
    \E a \in Attempts(GenerateHash(file_input, fs, fs, FALSE).hashed # << >>) :
        GenerateRun(a[1], a[2])

\* GenerateHashScreen.on_input_submitted, Enter in the file-path field
GenerateSubmitted ==
    \E a \in Attempts(GenerateHash(file_input, fs, fs, FALSE).hashed # << >>) :
        GenerateRun(a[1], a[2])

\* GenerateHashScreen: Enter in the output field, or a click on it
\* (on_input_submitted, on_mouse_down)
CopyHash ==
    /\ Idle
    /\ screen = "generate"
    /\ hash_output # << >>
    /\ result_label' = MsgCopied
    /\ hashed' = << >>
    /\ handler' = "copy_to_clipboard"
    /\ UNCHANGED << selected, reader >>
    /\ UNCHANGED << fs, fsChanges, cwd, status, screen, current_path, children,
                    hash_input, file_input, hash_output, pending >>

\* The fields become c.
FieldsBecome(c) ==
    /\ hash_input' = c.hash_input
    /\ file_input' = c.file_input
    /\ hash_output' = c.hash_output
    /\ result_label' = c.result_label

\* on_button_pressed, clear_button, of either screen
ClearButton ==
    /\ Idle
    /\ screen \in {"verify", "generate"}
    /\ FieldsBecome(IF screen = "verify" THEN VerifyClearFields(Fields)
                    ELSE GenerateClearFields(Fields))
    /\ hashed' = << >>
    /\ handler' = "clear_fields"
    /\ UNCHANGED << selected, reader >>
    /\ UNCHANGED << fs, fsChanges, cwd, status, screen, current_path, children,
                    pending >>

\* back_button or Esc: self.app.pop_screen().  The screen and its widgets go.
Back ==
    /\ Idle
    /\ screen \in {"verify", "generate"}
    /\ screen' = "menu"
    /\ current_path' = NoPath
    /\ children' = << >>
    /\ hash_input' = << >>
    /\ file_input' = << >>
    /\ hash_output' = << >>
    /\ result_label' = ""
    /\ hashed' = << >>
    /\ handler' = "pop_screen"
    /\ UNCHANGED << selected, reader >>
    /\ UNCHANGED << fs, fsChanges, cwd, status, pending >>

\* quit_button, or "q" / ctrl+c reaching the app: exit().  The process ends,
\* and the screens and their widgets go with it.
Quit ==
    /\ Idle
    /\ status' = "exited"
    /\ handler' = "exit"
    /\ UNCHANGED << selected, reader >>
    /\ screen' = "menu"
    /\ current_path' = NoPath
    /\ children' = << >>
    /\ hash_input' = << >>
    /\ file_input' = << >>
    /\ hash_output' = << >>
    /\ result_label' = ""
    /\ hashed' = << >>
    /\ UNCHANGED << fs, fsChanges, cwd, pending >>

\* Another process changes the filesystem between two handlers.
FsChange ==
    /\ Running
    /\ fsChanges < MaxFsChanges
    /\ fs' \in FsSuccessors(fs)
    /\ fsChanges' = fsChanges + 1
    /\ handler' = "none"
    /\ UNCHANGED << selected, reader >>
    /\ UNCHANGED << cwd, status, screen, current_path, children, hash_input,
                    file_input, hash_output, result_label, pending, hashed >>

Next ==
    \/ \E mode \in {"verify", "generate"} : ModeSelected(mode)
    \/ \E i \in 1..Len(children) : TreeNodeSelected(i)
    \/ \E selects \in BOOLEAN : BrowserFocused(selects)
    \/ VerifyFileSelected
    \/ GenerateFileSelected
    \/ \E v \in HashInputs : TypeHash(v)
    \/ \E v \in FileInputs : TypeFile(v)
    \/ \E v \in OutputInputs : TypeOutput(v)
    \/ VerifyButton
    \/ VerifySubmitted
    \/ GenerateButton
    \/ GenerateSubmitted
    \/ CopyHash
    \/ ClearButton
    \/ Back
    \/ Quit
    \/ FsChange

Spec == Init /\ [][Next]_vars

(***************************************************************************)
(* hashfile, one read at a time                                            *)
(***************************************************************************)
\* How many full buffers the files read hold at most, and by how many bytes
\* their sizes miss or pass a whole number of buffers.
MaxBuffers == 2
MaxSlack   == 2

\* The sizes of the files read.
FileSizes ==
    {n \in {k * BUF_SIZE + d : k \in 0..MaxBuffers, d \in -MaxSlack..MaxSlack} :
        n >= 0}

\* The bytes of a file this large are written by where they lie in it:
\* Slice(from, to) is the byte string at the offsets from .. to - 1, and a
\* byte string made of several slices is their sequence.
Slice(from, to) == << [from |-> from, to |-> to] >>

\* sha256 = hashlib.sha256(); with open(file_path, "rb") as f: the call on
\* the screen sc has opened a file of size bytes.
Opened(sc, size) ==
    [screen |-> sc, size |-> size, pos |-> 0, sha256 |-> EmptyBytes,
     chunks |-> << >>, pc |-> "reading"]

HashfileInit ==
    /\ Started
    /\ reader \in {Opened(sc, n) : sc \in {"verify", "generate"}, n \in FileSizes}

\* f.read() with the size left out: the rest of the file.
FReadWhole(file_size, pos, size) ==
    IF pos < file_size THEN Slice(pos, file_size) ELSE EmptyBytes

\* f.read(size) at the offset pos of a regular file of file_size bytes: the
\* next size bytes, fewer at the end of the file, none after it.
FRead(file_size, pos, size) ==
    IF pos < file_size THEN Slice(pos, Min(pos + size, file_size))
    ELSE EmptyBytes

\* len(chunk)
ByteLen(chunk) ==
    IF chunk = EmptyBytes THEN 0 ELSE chunk[1].to - chunk[1].from

\* One turn of "while chunk := f.read(BUF_SIZE): sha256.update(chunk)", the
\* read having answered chunk: an empty chunk ends the loop.
AfterRead(r, chunk) ==
    IF chunk # << >>
    THEN [r EXCEPT !.pos = @ + ByteLen(chunk),
                   !.sha256 = Sha256Update(@, chunk),
                   !.chunks = Append(@, chunk)]
    ELSE [r EXCEPT !.pc = "done"]

HashfileRead ==
    /\ reader.pc = "reading"
    /\ reader' = AfterRead(reader, FRead(reader.size, reader.pos, BUF_SIZE))
    /\ UNCHANGED << fs, fsChanges, cwd, status, screen, current_path, children,
                    hash_input, file_input, hash_output, result_label, pending,
                    hashed, handler, selected >>

\* f.read raises OSError: except Exception, and hashfile returns None.
HashfileReadFails ==
    /\ reader.pc = "reading"
    /\ reader' = [reader EXCEPT !.pc = "failed"]
    /\ UNCHANGED << fs, fsChanges, cwd, status, screen, current_path, children,
                    hash_input, file_input, hash_output, result_label, pending,
                    hashed, handler, selected >>

HashfileNext == HashfileRead \/ HashfileReadFails

HashfileSpec == HashfileInit /\ [][HashfileNext]_vars

\* hashfile is one synchronous call: once entered, its loop is run turn after
\* turn until it ends or raises.
HashfileFairSpec == HashfileSpec /\ WF_vars(HashfileNext)

(***************************************************************************)
(* Properties                                                              *)
(***************************************************************************)
\* A browser is on screen.
Browsing == screen \in {"verify", "generate"}

\* How a node of the listing reads: its kind by its icon, its name after it.
IsParentLink(n)     == StartsWith(n.label, UpPrefix)
IsDirectoryEntry(n) == StartsWith(n.label, FolderIcon)
IsFileEntry(n)      == StartsWith(n.label, PageIcon)
EntryName(n)        == SubSeq(n.label, Len(PageIcon) + 1, Len(n.label))

\* The entries of the listing that are not the parent link.
Entries == {i \in 1..Len(children) : ~IsParentLink(children[i])}

NameIgnoringCase(i) == Lower(EntryName(children[i]))

\* C1: whatever the navigation so far, the listing shows no entry whose name
\* starts with ".", every directory entry before every file entry, and the
\* directories, like the files, in the order of their names ignoring case.
C1_ListingOrdered ==
    Browsing =>
        \A i \in Entries :
            /\ IsDirectoryEntry(children[i]) # IsFileEntry(children[i])
            /\ ~StartsWith(EntryName(children[i]), << "." >>)
            /\ \A j \in Entries :
                  i < j =>
                    /\ IsFileEntry(children[i]) => IsFileEntry(children[j])
                    /\ IsFileEntry(children[i]) = IsFileEntry(children[j])
                          => ~StrLess(NameIgnoringCase(j), NameIgnoringCase(i))

\* The listing of the root: two directories and three files whose order
\* depends on the case of the names, the hidden file left out.
C1_Witness ==
    /\ Browsing
    /\ status = "running"
    /\ current_path = P_root
    /\ Len(children) = 5
    /\ EntryName(children[1]) = << "a" >>
    /\ EntryName(children[2]) = << "B" >>
    /\ IsFileEntry(children[3])

ParentLinks == {i \in 1..Len(children) : IsParentLink(children[i])}

\* C2: at the filesystem root the listing has no parent link; in any other
\* directory it has exactly one, and selecting it makes the parent of the
\* current directory the current directory.
C2_ParentLink ==
    /\ [](Browsing =>
            IF current_path = P_root THEN ParentLinks = {}
            ELSE Cardinality(ParentLinks) = 1)
    /\ [][handler' = "on_tree_node_selected" =>
            \A i \in ParentLinks :
                \/ current_path' = FsParent[current_path]
                \/ ~TreeNodeSelected(i)]_vars

\* The root reached through the parent link of the working directory.
C2_Witness ==
    /\ Browsing
    /\ handler = "on_tree_node_selected"
    /\ current_path = P_root
    /\ ParentLinks = {}
    /\ children # << >>

\* C3: selecting a directory entry or the parent link posts no FileSelected;
\* selecting a file entry posts exactly one, with the entry's absolute path.
C3_FileSelectedOnlyForFiles ==
    [][handler' = "on_tree_node_selected" =>
        \A i \in 1..Len(children) :
          \/ IF IsFileEntry(children[i])
             THEN /\ pending' = pending
                         \o << Join(current_path, EntryName(children[i])) >>
                  /\ IsAbs(pending'[Len(pending')])
             ELSE pending' = pending
          \/ ~TreeNodeSelected(i)]_vars

\* A file entry of the root was selected, and its message is in the queue.
C3_Witness ==
    /\ handler = "on_tree_node_selected"
    /\ current_path = P_root
    /\ pending = << P_C >>

\* A regular file at p that the process may open and read.
Readable(f, p) == IsFile(f, p) /\ NodeAt(f, p).mode

\* The SHA-256 digest of the file at p.
DigestOf(f, p) == HexDigest(NodeAt(f, p).content)

\* The filesystem a handler met when it opened the file: the one it left.
Met == [f |-> fs', n |-> fsChanges']

\* The path verify_hash and generate_hash work on.
VerifyPath   == Strip(file_input)
GeneratePath == Strip(file_input')

\* C4 as the spec words it: for a readable regular file with digest D and
\* a non-blank expected hash E, verify reports Match exactly when E equals D
\* ignoring letter case, and Mismatch otherwise.
C4_MatchIffEqualIgnoringCase ==
    [][(/\ handler' = "verify_hash"
        /\ Strip(hash_input) # << >>
        /\ Readable(fs, file_input)
        /\ Readable(fs', file_input)
        /\ VerifyRun(Met, FALSE))
       => result_label' =
            IF Lower(hash_input) = Lower(DigestOf(fs', file_input))
            THEN MsgMatch ELSE MsgMismatch]_vars

\* The file "/d ", picked in the browser, was rejected as an invalid path
\* though it is a readable regular file and the expected hash is its digest.
C4_Witness ==
    /\ handler = "verify_hash"
    /\ hash_input = Sha_a
    /\ file_input = P_d
    /\ Readable(fs, P_d)
    /\ DigestOf(fs, P_d) = Sha_a
    /\ hashed = << >>
    /\ result_label = MsgInvalidPath

\* C5: verify with a blank expected hash reports the empty expected hash
\* whatever the file-path field holds, and does not call the hasher.
C5_EmptyHashFirst ==
    [][handler' = "verify_hash" /\ Strip(hash_input) = << >>
       => /\ result_label' = MsgEmptyHash
          /\ hashed' = << >>
          /\ fs' = fs]_vars

\* A blank expected hash was reported though the path names a file.
C5_Witness ==
    /\ handler = "verify_hash"
    /\ hash_input = << " " >>
    /\ file_input = P_b
    /\ IsFile(fs, P_b)
    /\ hashed = << >>
    /\ result_label = MsgEmptyHash

\* C6 as the spec words it: verify with a non-blank expected hash and a file
\* path that is blank or does not reference an existing regular file reports
\* the invalid file path, and does not call the hasher.
C6_InvalidPathRejected ==
    [][(/\ handler' = "verify_hash"
        /\ Strip(hash_input) # << >>
        /\ (Strip(file_input) = << >> \/ ~IsFile(fs, file_input)))
       => /\ result_label' = MsgInvalidPath
          /\ hashed' = << >>
          /\ fs' = fs]_vars

\* C6: verify with a non-blank expected hash and a file path that is blank,
\* or that references an existing regular file neither as it stands nor
\* without its surrounding whitespace, reports the invalid file path, and
\* does not call the hasher.
C6_InvalidPathRejectedAfterStrip ==
    [][(/\ handler' = "verify_hash"
        /\ Strip(hash_input) # << >>
        /\ \/ VerifyPath = << >>
           \/ ~IsFile(fs, file_input) /\ ~IsFile(fs, VerifyPath))
       => /\ result_label' = MsgInvalidPath
          /\ hashed' = << >>
          /\ fs' = fs]_vars

\* The path of a directory was rejected.
C6_Witness ==
    /\ handler = "verify_hash"
    /\ hash_input = Sha_a
    /\ file_input = P_b
    /\ fs[P_b].kind = "dir"
    /\ hashed = << >>
    /\ result_label = MsgInvalidPath

\* The messages of the hasher's errors.
UnexpectedMessages ==
    {MsgUnexpected(e) : e \in {"IsADirectoryError", "NotADirectoryError", "ok"}}
ErrorMessages == {MsgNotFound, MsgPermission} \cup UnexpectedMessages

\* C7: when verify passes validation and the hasher fails, the result shown
\* at the end is the message of the hasher's error: not a match, not a
\* mismatch and not the status shown while verifying.
C7_HasherErrorShown ==
    [][handler' = "verify_hash" /\ hashed' # << >>
       => \A io \in BOOLEAN :
            VerifyRun(Met, io) /\ (io \/ ~Readable(fs', VerifyPath))
            => /\ result_label' \in ErrorMessages
               /\ result_label' \notin {MsgMatch, MsgMismatch, MsgVerifying}]_vars

\* The file passed validation and was gone when the hasher opened it.
C7_Witness ==
    /\ handler = "verify_hash"
    /\ hashed = << P_b >>
    /\ fs[P_b].kind = "absent"
    /\ result_label = MsgNotFound

GenerateRan ==
    \/ handler' = "generate_hash"
    \/ handler' = "on_file_selected" /\ screen = "generate"

\* C8: after every generate, whatever the output field held: the output is
\* the file's digest if the hasher succeeded; it is empty, and the result is
\* the error's message, if the path was invalid or the hasher failed.
C8_GenerateOutput ==
    [][GenerateRan =>
        IF GeneratePath = << >> \/ ~IsFile(fs, GeneratePath)
        THEN hash_output' = << >> /\ result_label' = MsgInvalidPath
        ELSE \A io \in BOOLEAN :
               GenerateRun(Met, io) \/ GenerateFileSelectedRun(Met, io) =>
                 IF Readable(fs', GeneratePath) /\ ~io
                 THEN hash_output' = DigestOf(fs', GeneratePath)
                 ELSE /\ hash_output' = << >>
                      /\ result_label' \in ErrorMessages]_vars

\* A generate that the hasher failed: the output field is empty.
C8_Witness ==
    /\ handler = "generate_hash"
    /\ hashed = << P_b >>
    /\ ~fs[P_b].mode
    /\ hash_output = << >>
    /\ result_label = MsgPermission

\* C9: clear leaves the expected-hash field, the file-path field, the hash
\* output field and the result empty, whatever they held.
C9_ClearResets ==
    [][handler' = "clear_fields"
       => /\ hash_input' = << >>
          /\ file_input' = << >>
          /\ hash_output' = << >>
          /\ result_label' = ""]_vars

\* The generate screen after a clear.
C9_Witness ==
    /\ handler = "clear_fields"
    /\ screen = "generate"
    /\ Fields = [hash_input |-> << >>, file_input |-> << >>,
                 hash_output |-> << >>, result_label |-> ""]

\* The variant of the hasher's result that a final result shows.
Shown(label) ==
    CASE label \in {MsgMatch, MsgMismatch, MsgGenerated} -> "Success"
      [] label = MsgNotFound                             -> "NotFound"
      [] label = MsgPermission                           -> "PermissionDenied"
      [] label \in UnexpectedMessages                    -> "OtherError"
      [] OTHER                                           -> "none"

\* A handler ran that called the hasher.
Hashed ==
    /\ hashed' # << >>
    /\ handler' = "verify_hash" \/ GenerateRan

HashRun(io) ==
    \/ VerifyRun(Met, io)
    \/ GenerateRun(Met, io)
    \/ GenerateFileSelectedRun(Met, io)

\* The classification of C10 as the spec words it.
SpecVariant(f, p, io) ==
    IF Stat(f, p) = "EACCES" \/ (Stat(f, p) = "ok" /\ ~NodeAt(f, p).mode)
    THEN "PermissionDenied"
    ELSE IF ~IsFile(f, p) THEN "NotFound"
    ELSE IF io THEN "OtherError"
    ELSE "Success"

\* C10 as the spec words it: hash(path) is NotFound when the path does not
\* resolve to an existing regular file, a directory included,
\* PermissionDenied when the process lacks read access, OtherError for any
\* other I/O failure, and Success only for a readable regular file.
C10_DirectoryIsNotFound ==
    [][Hashed =>
        \A io \in BOOLEAN :
           HashRun(io) => Shown(result_label') = SpecVariant(fs', hashed'[1], io)]_vars

\* The classification the code makes.
Variant(f, p, io) ==
    CASE Stat(f, p) = "ENOENT" -> "NotFound"
      [] Stat(f, p) = "EACCES" -> "PermissionDenied"
      [] Stat(f, p) = "ENOTDIR" -> "OtherError"
      [] OTHER -> IF ~NodeAt(f, p).mode THEN "PermissionDenied"
                  ELSE IF NodeAt(f, p).kind = "dir" \/ io THEN "OtherError"
                  ELSE "Success"

\* C10: hash(path) is NotFound when the path or a directory on the way to it
\* does not exist, PermissionDenied when the process lacks the permission to
\* reach or read it, OtherError for any other I/O failure, a path that names
\* a directory or that runs through a file included, and Success only for a
\* readable regular file.
C10_FailureClassified ==
    [][Hashed =>
        \A io \in BOOLEAN :
           HashRun(io) => Shown(result_label') = Variant(fs', hashed'[1], io)]_vars

\* The file passed validation and was a directory when the hasher opened it.
C10_Witness ==
    /\ handler = "verify_hash"
    /\ hashed = << P_b >>
    /\ fs[P_b].kind = "dir"
    /\ result_label = MsgUnexpected("IsADirectoryError")

\* The path generate_hash() gives to hashfile when the file-path field holds
\* v, none if it rejects v.
GenerateHashes(v) ==
    IF Strip(v) # << >> /\ IsFile(fs, Strip(v)) THEN << Strip(v) >> ELSE << >>

\* The handlers the user triggers a hash with: the verify or generate
\* button, or Enter in the file-path field.
ExplicitTrigger == handler' \in {"verify_hash", "generate_hash"}

\* C11 as the spec words it: on either screen the receipt of FileSelected
\* only fills the file-path field, and the hasher is called by no handler
\* but those of the verify and generate triggers.
C11_FileSelectedOnlyFillsField ==
    [][/\ handler' = "on_file_selected"
          => /\ file_input' = Head(pending)
             /\ hashed' = << >>
             /\ UNCHANGED << hash_input, hash_output, result_label >>
       /\ handler' # "none" /\ hashed' # << >> => ExplicitTrigger]_vars

\* C11: on the verify screen the receipt of FileSelected only fills the
\* file-path field and the hasher is called by the verify triggers alone; on
\* the generate screen the receipt of FileSelected fills the field and runs
\* generate on it at once, which calls the hasher if the path is valid, and
\* no handler but that one and those of the generate triggers calls it.
C11_FileSelectedHashesOnGenerateOnly ==
    [][/\ handler' = "on_file_selected"
          => /\ file_input' = Head(pending)
             /\ UNCHANGED hash_input
             /\ IF screen = "verify"
                THEN /\ hashed' = << >>
                     /\ UNCHANGED << hash_output, result_label >>
                ELSE hashed' = GenerateHashes(Head(pending))
       /\ handler' # "none" /\ hashed' # << >>
          => \/ ExplicitTrigger
             \/ handler' = "on_file_selected" /\ screen = "generate"]_vars

\* The verify screen took the file picked in the browser into the file-path
\* field, next to an expected hash, and hashed nothing.
C11_Witness ==
    /\ handler = "on_file_selected"
    /\ screen = "verify"
    /\ hash_input = Sha_a
    /\ file_input = P_B_f
    /\ IsFile(fs, P_B_f)
    /\ hashed = << >>
    /\ result_label = ""

\* C12: no operation ends in an unhandled error, whatever the fields hold and
\* whatever has become of the filesystem since the listing was built: the
\* application keeps running until the user quits.
C12_NoUnhandledError == status # "crashed"

\* The directory B, listed at the root, was removed and then selected:
\* scandir raised FileNotFoundError out of on_tree_node_selected.
C12_Witness ==
    /\ status = "crashed"
    /\ handler = "on_tree_node_selected"
    /\ current_path = P_B
    /\ fs[P_B].kind = "absent"

\* Reading the directory p is denied: p is a directory without the read
\* permission, or lies below one that may not be searched.
ListingDenied(f, p) ==
    \/ Stat(f, p) = "EACCES"
    \/ Stat(f, p) = "ok" /\ f[p].kind = "dir" /\ ~f[p].mode

\* A handler of the browser or of the application built a listing.
ListingBuilt ==
    \/ handler' = "on_mode_selected"
    \/ handler' = "on_tree_node_selected" /\ current_path' # current_path

\* C13: when building the listing of a directory is denied, no error leaves
\* the browser, the listing holds none of the directory's entries, no
\* message is posted and the result shown stays as it was; a file whose
\* read is denied has the denial reported as the result.
C13_ListingDenialSilent ==
    [][/\ ListingBuilt /\ ListingDenied(fs, current_path')
          => /\ status' = "running"
             /\ \A i \in 1..Len(children') : IsParentLink(children'[i])
             /\ pending' = pending
             /\ result_label' = result_label
       /\ (/\ Hashed
           /\ Stat(fs', hashed'[1]) = "ok"
           /\ ~NodeAt(fs', hashed'[1]).mode)
          => result_label' = MsgPermission]_vars

\* The directory B, made unreadable, was entered from the root: the listing
\* is the parent link alone, and the result of the last verify still shows.
C13_Witness ==
    /\ handler = "on_tree_node_selected"
    /\ status = "running"
    /\ current_path = P_B
    /\ fs[P_B].kind = "dir" /\ ~fs[P_B].mode
    /\ children = << UpNode(P_root) >>
    /\ result_label = MsgMatch

\* The current directory and the entry list.
TreeState == << current_path, children >>

\* C14: while a browser is on screen, the current directory and the entry
\* list change only when a directory entry or the parent link is selected:
\* selecting a file entry, verify, generate, clear and the receipt of
\* FileSelected leave both as they were.
C14_TreeStateFrame ==
    [][Browsing /\ screen' = screen
       => /\ TreeState' # TreeState
             => /\ handler' = "on_tree_node_selected"
                /\ \E i \in 1..Len(children) :
                      /\ IsParentLink(children[i]) \/ IsDirectoryEntry(children[i])
                      /\ TreeNodeSelected(i)
          /\ handler' \in {"verify_hash", "generate_hash", "clear_fields",
                            "on_file_selected"}
             => TreeState' = TreeState
          /\ handler' = "on_tree_node_selected"
             => \A i \in 1..Len(children) :
                   \/ ~IsFileEntry(children[i])
                   \/ TreeState' = TreeState
                   \/ ~TreeNodeSelected(i)]_vars

\* A file was selected in a listing that the filesystem had moved away
\* from: B listed at the root as a directory, since removed.
C14_Witness ==
    /\ handler = "on_tree_node_selected"
    /\ pending = << P_C >>
    /\ current_path = P_root
    /\ fs[P_B].kind = "absent"
    /\ \E i \in 1..Len(children) :
          IsDirectoryEntry(children[i]) /\ children[i].data = P_B

\* How many directories lie between the root and the absolute path p, p
\* included.
Depth(p) == IF p = SEP THEN 0 ELSE Cardinality({i \in 1..Len(p) : p[i] = "/"})

\* Selecting the parent link of the listing kids of cur, n times over, goes
\* up one directory each time and ends at the root, whose listing has no
\* parent link to select.
RECURSIVE ClimbsToRoot(_, _, _)
ClimbsToRoot(cur, kids, n) ==
    LET ups == {i \in 1..Len(kids) : IsParentLink(kids[i])} IN
    IF n = 0 THEN cur = P_root /\ ups = {}
    ELSE /\ Cardinality(ups) = 1
         /\ \A i \in ups, rev \in BOOLEAN :
               /\ Depth(OnTreeNodeSelected(cur, kids, kids[i], fs, rev)
                          .current_path) = n - 1
               /\ ClimbsToRoot(
                      OnTreeNodeSelected(cur, kids, kids[i], fs, rev).current_path,
                      OnTreeNodeSelected(cur, kids, kids[i], fs, rev).children,
                      n - 1)

\* C15: from the directory shown, at depth n, selecting the parent link n
\* times goes up one directory each time and reaches the root, where there
\* is no parent link: upward navigation neither cycles nor passes the root.
C15_UpwardNavigationFinite ==
    Browsing => ClimbsToRoot(current_path, children, Depth(current_path))

\* The deepest directory, two parent links away from the root.
C15_Witness ==
    /\ Browsing
    /\ status = "running"
    /\ current_path = P_B_D
    /\ Depth(current_path) = 2
    /\ Cardinality(ParentLinks) = 1

\* C20: giving the focus to the browser changes neither the current
\* directory nor the entry list and emits no FileSelected, whatever the first
\* entry is: neither on_focus nor the handling of what it posts does.
C20_FocusChangesNothing ==
    [][/\ handler' = "on_focus"
          => TreeState' = TreeState /\ pending' = pending
       /\ selected # << >>
          => TreeState' = TreeState /\ pending' = pending]_vars

\* on_focus has posted Tree.NodeSelected for the parent link of /B.
C20_Witness ==
    /\ handler = "on_focus"
    /\ current_path = P_B
    /\ selected = << UpNode(P_root) >>

\* The listing shown is the one the filesystem gives for the current
\* directory when its entries are read in the order rev.
ListingCurrent(rev) ==
    /\ ScanDir(fs, current_path, rev).err = "none"
    /\ children = PopulateTree(fs, current_path, rev).children

\* What selecting the parent link of the listing t leaves, the directory it
\* names being read in the order rev.
ThenParentLink(t, rev) ==
    OnTreeNodeSelected(t.current_path, t.children, t.children[1], fs, rev)

\* Selecting the i-th node, a subdirectory read in the order sub, and then
\* the parent link of the listing that gives, brings back the current
\* directory and the entry list shown.
RoundTrip(i, sub, rev) ==
    LET t == OnTreeNodeSelected(current_path, children, children[i], fs, sub)
    IN  /\ t.raised = "none"
        /\ t.current_path = children[i].data
        /\ t.children # << >>
        /\ IsParentLink(t.children[1])
        /\ ThenParentLink(t, rev).raised = "none"
        /\ ThenParentLink(t, rev).posted = << >>
        /\ ThenParentLink(t, rev).current_path = current_path
        /\ ThenParentLink(t, rev).children = children

\* C18: while the filesystem stays as it is (a directory that is not changed
\* is read in the same order again), from a listing of a readable directory
\* selecting a subdirectory entry and then the parent link of the listing
\* that follows brings back the same current directory and the same entry
\* list.
C18_RoundTrip ==
    Browsing /\ Running
    => \A rev \in BOOLEAN :
          ListingCurrent(rev)
          => \A i \in 1..Len(children), sub \in BOOLEAN :
                IsDirectoryEntry(children[i]) => RoundTrip(i, sub, rev)

\* The browser, opened in /B, is in /B again by a selection, its listing as
\* the filesystem has it and holding the subdirectory D: it has been in D or
\* in the root and has come back.
C18_Witness ==
    /\ Browsing /\ Running
    /\ handler = "on_tree_node_selected"
    /\ pending = << >>
    /\ cwd = P_B
    /\ current_path = P_B
    /\ ListingCurrent(FALSE)
    /\ Len(children) = 3
    /\ IsDirectoryEntry(children[2]) /\ children[2].data = P_B_D
    /\ RoundTrip(2, TRUE, FALSE)

\* The paths the directory p holds in the filesystem f that a listing shows:
\* those present whose name does not start with ".".
Shown_in(f, p) ==
    {q \in UPaths :
        /\ q # p
        /\ DirOf[q] = p
        /\ f[q].kind # "absent"
        /\ ~StartsWith(Last(Split(q, << >>)), << "." >>)}

\* The listing kids of the directory p starts with the parent link, which
\* names the parent of p, unless p is the root, and has no other.
ParentLinkFirst(p, kids) ==
    /\ p # P_root => kids # << >> /\ kids[1] = UpNode(DirOf[p])
    /\ \A i \in 1..Len(kids) : IsParentLink(kids[i]) <=> (i = 1 /\ p # P_root)

\* The entries of the listing kids, the parent link apart.
EntryPaths(kids) ==
    {kids[i].data : i \in {j \in 1..Len(kids) : ~IsParentLink(kids[j])}}

\* The directory p can be read in f.
ListingReadable(f, p) == Stat(f, p) = "ok" /\ f[p].kind = "dir" /\ f[p].mode

\* C19: a listing is never partly built.  Every listing on screen starts
\* with the parent link of the current directory (none at the root) and all
\* its entries lie in the current directory; a listing built for a directory
\* whose read is denied is the parent link alone, with that directory the
\* current one, and a listing built for a readable directory holds every
\* entry of it that is not hidden, once.
C19_ListingWhole ==
    /\ [](Browsing
          => /\ ParentLinkFirst(current_path, children)
             /\ \A q \in EntryPaths(children) :
                   q \in UPaths /\ q # current_path /\ DirOf[q] = current_path)
    /\ [][ListingBuilt
          => /\ ListingDenied(fs, current_path')
                => /\ status' = "running"
                   /\ ParentLinkFirst(current_path', children')
                   /\ EntryPaths(children') = {}
             /\ ListingReadable(fs, current_path')
                => /\ status' = "running"
                   /\ ParentLinkFirst(current_path', children')
                   /\ EntryPaths(children') = Shown_in(fs, current_path')
                   /\ Len(children')
                        = Cardinality(Shown_in(fs, current_path'))
                          + (IF current_path' = P_root THEN 0 ELSE 1)]_vars

\* On the generate screen the directory /B, which may not be read, has been
\* entered: the listing is the parent link and nothing of the listing shown
\* before.
C19_Witness ==
    /\ screen = "generate"
    /\ handler = "on_tree_node_selected"
    /\ status = "running"
    /\ current_path = P_B
    /\ ListingDenied(fs, P_B)
    /\ children = << UpNode(P_root) >>

\* The slices bs lie one after the other in the file, from the offset first
\* to the offset last: together they are the bytes first .. last - 1.
Covers(bs, first, last) ==
    IF bs = << >> THEN first = last
    ELSE /\ bs[1].from = first
         /\ bs[Len(bs)].to = last
         /\ \A i \in 1..Len(bs) - 1 : bs[i].to = bs[i + 1].from

\* C17: the chunks fed to the accumulator hold between 1 and 65,536 bytes
\* each and make up, in order, what has been read of the file, all of it when
\* the loop ends (no chunk for an empty file); every turn of the loop moves
\* on in the file or, at the first empty read and only then, ends it, and the
\* loop does end.
C17_ChunksMakeUpTheFile ==
    /\ [](/\ \A i \in 1..Len(reader.chunks) :
               /\ Len(reader.chunks[i]) = 1
               /\ ByteLen(reader.chunks[i]) \in 1..65536
          /\ Covers(reader.sha256, 0, reader.pos)
          /\ Len(reader.sha256) = Len(reader.chunks)
          /\ \A i \in 1..Len(reader.chunks) :
               reader.chunks[i] = << reader.sha256[i] >>
          /\ reader.pc = "done" => reader.pos = reader.size)
    /\ [][reader.pc = "reading" /\ reader'.pc # "failed"
          => IF reader.pos = reader.size
             THEN reader'.pc = "done" /\ reader'.chunks = reader.chunks
             ELSE /\ reader'.pc = "reading"
                  /\ reader'.pos > reader.pos
                  /\ Len(reader'.chunks) = Len(reader.chunks) + 1]_vars
    /\ <>(reader.pc \in {"done", "failed"})

\* A file of two buffers and a byte was read in three chunks.
C17_Witness ==
    /\ reader.pc = "done"
    /\ reader.size = 2 * 65536 + 1
    /\ Len(reader.chunks) = 3
    /\ ByteLen(reader.chunks[1]) = 65536
    /\ ByteLen(reader.chunks[3]) = 1
====
